---- MODULE Spec2Model ----
(***************************************************************************)
(* ZenFlow icon generators.                                                *)
(*                                                                         *)
(* Two scripts draw the app icon at every size of a size table and save    *)
(* the results as PNG files:                                               *)
(*   "app" : Scripts/generate_app_icons.py (Breathing Circles design,      *)
(*           per-entry try/except, success/fail tally, Contents.json)      *)
(*   "zen" : generate_icons.py (zen icon, no exception handling)           *)
(*                                                                         *)
(* Lengths are integers.  A float the code never truncates is kept as an   *)
(* exact fraction <<numerator, denominator>>; int(x) of a non-negative x   *)
(* is \div.  size / 1024.0 is exact in binary floating point, so           *)
(* int(k * scale) is (k * size) \div 1024.                                 *)
(***************************************************************************)
EXTENDS Integers, Sequences, FiniteSets, TLC

VARIABLES
    script,         \* which script runs: "app" or "zen"
    pc,             \* position inside generate_all_icons
    idx,            \* 1-based index of the size-table entry of the for loop
    icon,           \* the image returned by the renderer, not yet saved
    files,          \* PNG files this run wrote: filename -> file contents
    manifest,       \* Contents.json as this run left it
    success_count,  \* generate_app_icons.py:194
    fail_count,     \* generate_app_icons.py:195
    log,            \* history of the steps taken, in order
    printed,        \* the final summary printed, or NoOutput
    n,              \* pixel dimension N of the scaling comparison
    small,          \* renderer's shape at dimension N
    big             \* renderer's shape at dimension 2N

vars == <<script, pc, idx, icon, files, manifest, success_count, fail_count,
          log, printed, n, small, big>>

runVars == <<pc, idx, icon, files, manifest, success_count, fail_count,
             log, printed>>

----------------------------------------------------------------------------
(* Bounds of the model *)

\* Injected (environment) render/save failures per run of the app script.
MaxFailures == 1

\* Largest N of the scaling comparison (the renderers are compared at N, 2N).
MaxN == 512

----------------------------------------------------------------------------
(* Size tables *)

\* generate_app_icons.py:21-43, (filename, pixel_size)
ICON_SIZES ==
    << <<"icon-20@2x.png", 40>>,
       <<"icon-20@3x.png", 60>>,
       <<"icon-29@2x.png", 58>>,
       <<"icon-29@3x.png", 87>>,
       <<"icon-40@2x.png", 80>>,
       <<"icon-40@3x.png", 120>>,
       <<"icon-60@2x.png", 120>>,
       <<"icon-60@3x.png", 180>>,
       <<"icon-20.png", 20>>,
       <<"icon-20@2x-ipad.png", 40>>,
       <<"icon-29.png", 29>>,
       <<"icon-29@2x-ipad.png", 58>>,
       <<"icon-40.png", 40>>,
       <<"icon-40@2x-ipad.png", 80>>,
       <<"icon-76.png", 76>>,
       <<"icon-76@2x.png", 152>>,
       <<"icon-83.5@2x.png", 167>>,
       <<"icon-1024.png", 1024>> >>

\* generate_icons.py:13-35, (base_size, scale, filename); base_size is kept
\* in tenths of a point because of the entry 83.5.
ICON_SPECS ==
    << <<200, 2, "icon-20@2x.png">>,
       <<200, 3, "icon-20@3x.png">>,
       <<290, 2, "icon-29@2x.png">>,
       <<290, 3, "icon-29@3x.png">>,
       <<400, 2, "icon-40@2x.png">>,
       <<400, 3, "icon-40@3x.png">>,
       <<600, 2, "icon-60@2x.png">>,
       <<600, 3, "icon-60@3x.png">>,
       <<200, 1, "icon-20.png">>,
       <<200, 2, "icon-20@2x-ipad.png">>,
       <<290, 1, "icon-29.png">>,
       <<290, 2, "icon-29@2x-ipad.png">>,
       <<400, 1, "icon-40.png">>,
       <<400, 2, "icon-40@2x-ipad.png">>,
       <<760, 1, "icon-76.png">>,
       <<760, 2, "icon-76@2x.png">>,
       <<835, 2, "icon-83.5@2x.png">>,
       <<10240, 1, "icon-1024.png">> >>

\* generate_icons.py:111, pixel_size = int(base_size * scale)
pixel_size(base_tenths, scale) == (base_tenths * scale) \div 10

\* generate_app_icons.py:47-66, the "images" list of the template.  The
\* strings "scale" and "size" are kept as tuples of characters.
CONTENTS_IMAGES ==
    << [filename |-> "icon-20@2x.png", idiom |-> "iphone", scale |-> <<"2","x">>, size |-> <<"2","0","x","2","0">>],
       [filename |-> "icon-20@3x.png", idiom |-> "iphone", scale |-> <<"3","x">>, size |-> <<"2","0","x","2","0">>],
       [filename |-> "icon-29@2x.png", idiom |-> "iphone", scale |-> <<"2","x">>, size |-> <<"2","9","x","2","9">>],
       [filename |-> "icon-29@3x.png", idiom |-> "iphone", scale |-> <<"3","x">>, size |-> <<"2","9","x","2","9">>],
       [filename |-> "icon-40@2x.png", idiom |-> "iphone", scale |-> <<"2","x">>, size |-> <<"4","0","x","4","0">>],
       [filename |-> "icon-40@3x.png", idiom |-> "iphone", scale |-> <<"3","x">>, size |-> <<"4","0","x","4","0">>],
       [filename |-> "icon-60@2x.png", idiom |-> "iphone", scale |-> <<"2","x">>, size |-> <<"6","0","x","6","0">>],
       [filename |-> "icon-60@3x.png", idiom |-> "iphone", scale |-> <<"3","x">>, size |-> <<"6","0","x","6","0">>],
       [filename |-> "icon-20.png", idiom |-> "ipad", scale |-> <<"1","x">>, size |-> <<"2","0","x","2","0">>],
       [filename |-> "icon-20@2x-ipad.png", idiom |-> "ipad", scale |-> <<"2","x">>, size |-> <<"2","0","x","2","0">>],
       [filename |-> "icon-29.png", idiom |-> "ipad", scale |-> <<"1","x">>, size |-> <<"2","9","x","2","9">>],
       [filename |-> "icon-29@2x-ipad.png", idiom |-> "ipad", scale |-> <<"2","x">>, size |-> <<"2","9","x","2","9">>],
       [filename |-> "icon-40.png", idiom |-> "ipad", scale |-> <<"1","x">>, size |-> <<"4","0","x","4","0">>],
       [filename |-> "icon-40@2x-ipad.png", idiom |-> "ipad", scale |-> <<"2","x">>, size |-> <<"4","0","x","4","0">>],
       [filename |-> "icon-76.png", idiom |-> "ipad", scale |-> <<"1","x">>, size |-> <<"7","6","x","7","6">>],
       [filename |-> "icon-76@2x.png", idiom |-> "ipad", scale |-> <<"2","x">>, size |-> <<"7","6","x","7","6">>],
       [filename |-> "icon-83.5@2x.png", idiom |-> "ipad", scale |-> <<"2","x">>, size |-> <<"8","3",".","5","x","8","3",".","5">>],
       [filename |-> "icon-1024.png", idiom |-> "ios-marketing", scale |-> <<"1","x">>, size |-> <<"1","0","2","4","x","1","0","2","4">>] >>

\* A Contents.json whose record 17 gives the size "83x83" (the .5 dropped).
CONTENTS_JSON_truncated_size ==
    [images |-> [CONTENTS_IMAGES EXCEPT ![17].size = <<"8","3","x","8","3">>],
     info   |-> [author |-> "xcode", version |-> 1]]

\* generate_app_icons.py:46-68
CONTENTS_JSON ==
    [images |-> CONTENTS_IMAGES,
     info   |-> [author |-> "xcode", version |-> 1]]

----------------------------------------------------------------------------
(* Renderers *)

Max(a, b) == IF a >= b THEN a ELSE b

\* generate_app_icons.py:71-92.  steps = int(end_radius - start_radius); the
\* loop runs for i in range(steps) with progress = i / steps and draws the
\* ellipse of radius start_radius + (end_radius - start_radius) * progress,
\* which is start_radius + i.  It raises on a division by zero (an iteration
\* with steps = 0) and on a bounding box with x1 < x0 (a negative radius).
create_radial_gradient(start_radius, end_radius) ==
    LET steps == end_radius - start_radius
        range == 0 .. (steps - 1)
    IN  [start_radius |-> start_radius,
         end_radius   |-> end_radius,
         steps        |-> steps,
         radii        |-> [k \in 1 .. Max(steps, 0) |-> start_radius + (k - 1)],
         raises       |-> \E i \in range : steps = 0 \/ start_radius + i < 0]

\* generate_app_icons.py:124-130, (radius, width) factors of scale
circles == << <<400, 3>>, <<330, 4>>, <<260, 5>>, <<190, 6>>, <<120, 7>> >>

\* generate_app_icons.py:152-156, radius factors of the inner gradient layers
gradient_steps == << 5, 25, 40 >>

\* generate_app_icons.py:134-146, one ring: range(int(width)) outlines are
\* drawn, outline i at radius - i/2.
ring(size, c) ==
    LET outlines == (c[2] * size) \div 1024
    IN  [radius   |-> << c[1] * size, 1024 >>,
         stroke   |-> outlines,
         inverted |-> \E i \in 0 .. (outlines - 1) :
                          2 * c[1] * size - 1024 * i < 0]

\* The center stroke with a minimum of 2 pixels instead of 1.
stroke_width_min2(size) == Max(2, (2 * size) \div 1024)

\* generate_app_icons.py:170, stroke_width = max(1, int(2 * scale))
stroke_width(size) == Max(1, (2 * size) \div 1024)

\* An image one pixel too narrow.
new_image_narrow(size) == [width |-> size - 1, height |-> size]

\* generate_app_icons.py:98 and generate_icons.py:47, Image.new('RGB', (size, size))
new_image(size) == [width |-> size, height |-> size]

\* generate_app_icons.py:95-179
draw_breathing_circles_icon(size) ==
    LET img           == new_image(size)
        center        == size \div 2
        glow          == create_radial_gradient((100 * size) \div 1024,
                                                (300 * size) \div 1024)
        rings         == [k \in 1 .. Len(circles) |-> ring(size, circles[k])]
        center_radius == (40 * size) \div 1024
        inner         == [k \in 1 .. (Len(gradient_steps) - 1) |->
                            create_radial_gradient(
                                (gradient_steps[k] * size) \div 1024,
                                (gradient_steps[k + 1] * size) \div 1024)]
        sw            == stroke_width(size)
    IN  [design        |-> "breathing_circles",
         width         |-> img.width,
         height        |-> img.height,
         center        |-> center,
         glow          |-> glow,
         rings         |-> rings,
         center_radius |-> << center_radius, 1 >>,
         inner         |-> inner,
         stroke_width  |-> sw,
         raises        |-> \/ glow.raises
                           \/ \E k \in 1 .. Len(rings) : rings[k].inverted
                           \/ \E k \in 1 .. Len(inner) : inner[k].raises
                           \/ \E i \in 0 .. (sw - 1) : 2 * center_radius - i < 0]

\* generate_icons.py:68
num_circles == 5

\* generate_icons.py:91, width = max(1, size // 100)
zen_width(size) == Max(1, size \div 100)

\* generate_icons.py:37-102.  max_circle_radius = size * 0.4 and
\* radius = max_circle_radius * (i + 1) / num_circles, i.e. the fraction
\* 2 * size * (i + 1) / (5 * num_circles); center_radius = size * 0.08.
create_zen_icon(size) ==
    LET img    == new_image(size)
        center == size \div 2
        rings  == [k \in 1 .. num_circles |->
                     [radius   |-> << 2 * size * k, 5 * num_circles >>,
                      stroke   |-> zen_width(size),
                      inverted |-> 2 * size * k < 0]]
    IN  [design        |-> "zen",
         width         |-> img.width,
         height        |-> img.height,
         center        |-> center,
         rings         |-> rings,
         center_radius |-> << 2 * size, 25 >>,
         stroke_width  |-> zen_width(size),
         raises        |-> \/ \E k \in 1 .. Len(rings) : rings[k].inverted
                           \/ 2 * size < 0]

\* The renderer of each script.
render(s, size) ==
    IF s = "app" THEN draw_breathing_circles_icon(size) ELSE create_zen_icon(size)

----------------------------------------------------------------------------
(* State of a run *)

NoIcon == [design |-> "none"]

NoOutput == [summary |-> "none"]

\* Contents.json: not there, cut short by a failed write, or written.
NoManifest == [state |-> "absent"]

PartialManifest == [state |-> "partial"]

\* A PNG file cut short by a failed save.
PartialFile == [width |-> 0, height |-> 0, complete |-> FALSE]

Event(ev, entry) == [ev |-> ev, entry |-> entry]

RunInit ==
    /\ pc = "mkdir"
    /\ idx = 1
    /\ icon = NoIcon
    /\ files = << >>
    /\ manifest = NoManifest
    /\ success_count = 0
    /\ fail_count = 0
    /\ log = << >>
    /\ printed = NoOutput

Init ==
    /\ script \in {"app", "zen"}
    /\ RunInit
    /\ n = 0
    /\ small = NoIcon
    /\ big = NoIcon

\* Where the for loop goes after the entry at idx: the next entry, or the
\* statement after the loop.
AfterEntry(table, after_loop) == IF idx + 1 > Len(table) THEN after_loop ELSE "render"

----------------------------------------------------------------------------
(* Scripts/generate_app_icons.py, generate_all_icons *)

\* generate_app_icons.py:191-195.  mkdir is outside every try block: its
\* exception leaves generate_all_icons.
AppMkdir ==
    /\ script = "app" /\ pc = "mkdir"
    /\ \E ok \in BOOLEAN :
         /\ pc' = IF ok THEN "render" ELSE "aborted"
         /\ log' = Append(log, Event(IF ok THEN "mkdir" ELSE "mkdir_raise", 0))
    /\ UNCHANGED <<script, idx, icon, files, manifest, success_count,
                   fail_count, printed, n, small, big>>

\* The except branch on a failed render that leaves the loop (a break).
AppRender_break ==
    /\ script = "app" /\ pc = "render" /\ idx <= Len(ICON_SIZES)
    /\ LET shape == draw_breathing_circles_icon(ICON_SIZES[idx][2])
       IN  \E env_raise \in BOOLEAN :
             /\ env_raise => fail_count < MaxFailures
             /\ IF shape.raises \/ env_raise
                THEN /\ fail_count' = fail_count + 1
                     /\ log' = Append(log, Event("fail", idx))
                     /\ idx' = idx + 1
                     /\ pc' = "manifest"
                     /\ UNCHANGED icon
                ELSE /\ icon' = shape
                     /\ log' = Append(log, Event("render", idx))
                     /\ pc' = "save"
                     /\ UNCHANGED <<fail_count, idx>>
    /\ UNCHANGED <<script, files, manifest, success_count, printed, n, small, big>>

\* The except branch on a failed render that forgets fail_count += 1.
AppRender_uncounted ==
    /\ script = "app" /\ pc = "render" /\ idx <= Len(ICON_SIZES)
    /\ LET shape == draw_breathing_circles_icon(ICON_SIZES[idx][2])
       IN  \E env_raise \in BOOLEAN :
             /\ env_raise => fail_count < MaxFailures
             /\ IF shape.raises \/ env_raise
                THEN /\ log' = Append(log, Event("fail", idx))
                     /\ idx' = idx + 1
                     /\ pc' = AfterEntry(ICON_SIZES, "manifest")
                     /\ UNCHANGED <<icon, fail_count>>
                ELSE /\ icon' = shape
                     /\ log' = Append(log, Event("render", idx))
                     /\ pc' = "save"
                     /\ UNCHANGED <<fail_count, idx>>
    /\ UNCHANGED <<script, files, manifest, success_count, printed, n, small, big>>

\* generate_app_icons.py:198-200 and 204-206: the renderer is called for the
\* entry at idx; an exception (one the renderer raises by itself, or one of
\* the environment such as MemoryError) is caught, counted, and the loop
\* goes on.
AppRender ==
    /\ script = "app" /\ pc = "render" /\ idx <= Len(ICON_SIZES)
    /\ LET shape == draw_breathing_circles_icon(ICON_SIZES[idx][2])
       IN  \E env_raise \in BOOLEAN :
             /\ env_raise => fail_count < MaxFailures
             /\ IF shape.raises \/ env_raise
                THEN /\ fail_count' = fail_count + 1
                     /\ log' = Append(log, Event("fail", idx))
                     /\ idx' = idx + 1
                     /\ pc' = AfterEntry(ICON_SIZES, "manifest")
                     /\ UNCHANGED icon
                ELSE /\ icon' = shape
                     /\ log' = Append(log, Event("render", idx))
                     /\ pc' = "save"
                     /\ UNCHANGED <<fail_count, idx>>
    /\ UNCHANGED <<script, files, manifest, success_count, printed, n, small, big>>

\* icon.save without the try block: its exception leaves generate_all_icons.
AppSave_uncaught ==
    /\ script = "app" /\ pc = "save"
    /\ LET filename == ICON_SIZES[idx][1]
       IN  \E ok \in BOOLEAN :
             /\ ~ok => fail_count < MaxFailures
             /\ IF ok
                THEN /\ files' = (filename :> [width |-> icon.width,
                                               height |-> icon.height,
                                               complete |-> TRUE]) @@ files
                     /\ success_count' = success_count + 1
                     /\ log' = Append(log, Event("save", idx))
                     /\ idx' = idx + 1
                     /\ pc' = AfterEntry(ICON_SIZES, "manifest")
                     /\ UNCHANGED fail_count
                ELSE /\ files' \in {files, (filename :> PartialFile) @@ files}
                     /\ log' = Append(log, Event("fail", idx))
                     /\ pc' = "aborted"
                     /\ UNCHANGED <<fail_count, success_count, idx>>
    /\ icon' = NoIcon
    /\ UNCHANGED <<script, manifest, printed, n, small, big>>

\* icon.save that counts a success without writing the file.
AppSave_unwritten ==
    /\ script = "app" /\ pc = "save"
    /\ success_count' = success_count + 1
    /\ log' = Append(log, Event("save", idx))
    /\ idx' = idx + 1
    /\ pc' = AfterEntry(ICON_SIZES, "manifest")
    /\ icon' = NoIcon
    /\ UNCHANGED <<script, files, fail_count, manifest, printed, n, small, big>>

\* generate_app_icons.py:201-206: the image is saved as output_path/filename;
\* on success success_count += 1; an exception of save is caught and counted,
\* and the file it was writing is either not there or cut short.  The image
\* is dropped at the end of the iteration.
AppSave ==
    /\ script = "app" /\ pc = "save"
    /\ LET filename == ICON_SIZES[idx][1]
       IN  \E ok \in BOOLEAN :
             /\ ~ok => fail_count < MaxFailures
             /\ IF ok
                THEN /\ files' = (filename :> [width |-> icon.width,
                                               height |-> icon.height,
                                               complete |-> TRUE]) @@ files
                     /\ success_count' = success_count + 1
                     /\ log' = Append(log, Event("save", idx))
                     /\ UNCHANGED fail_count
                ELSE /\ files' \in {files, (filename :> PartialFile) @@ files}
                     /\ fail_count' = fail_count + 1
                     /\ log' = Append(log, Event("fail", idx))
                     /\ UNCHANGED success_count
    /\ icon' = NoIcon
    /\ idx' = idx + 1
    /\ pc' = AfterEntry(ICON_SIZES, "manifest")
    /\ UNCHANGED <<script, manifest, printed, n, small, big>>

\* generate_app_icons.py:209-215: Contents.json is opened and CONTENTS_JSON
\* dumped into it; an exception is caught and counted in fail_count.
AppWriteManifest ==
    /\ script = "app" /\ pc = "manifest"
    /\ \E ok \in BOOLEAN :
         IF ok
         THEN /\ manifest' = [state |-> "written", json |-> CONTENTS_JSON]
              /\ log' = Append(log, Event("manifest", Len(ICON_SIZES) + 1))
              /\ UNCHANGED fail_count
         ELSE /\ manifest' \in {manifest, PartialManifest}
              /\ fail_count' = fail_count + 1
              /\ log' = Append(log, Event("manifest_fail", Len(ICON_SIZES) + 1))
    /\ pc' = "summary"
    /\ UNCHANGED <<script, idx, icon, files, success_count, printed, n, small, big>>

\* generate_app_icons.py:217-224: "Success: {success_count}/{len(ICON_SIZES)}
\* icons", and "Failed: {fail_count}" when fail_count > 0.
AppSummary ==
    /\ script = "app" /\ pc = "summary"
    /\ printed' = [summary      |-> "app",
                   success      |-> success_count,
                   total        |-> Len(ICON_SIZES),
                   failed_shown |-> fail_count > 0,
                   failed       |-> fail_count]
    /\ pc' = "done"
    /\ UNCHANGED <<script, idx, icon, files, manifest, success_count,
                   fail_count, log, n, small, big>>

----------------------------------------------------------------------------
(* generate_icons.py, generate_all_icons: no statement is inside a try *)
(* block, so every exception leaves the function.                       *)

\* generate_icons.py:106, os.makedirs(output_dir, exist_ok=True)
ZenMkdir ==
    /\ script = "zen" /\ pc = "mkdir"
    /\ \E ok \in BOOLEAN :
         /\ pc' = IF ok THEN "render" ELSE "aborted"
         /\ log' = Append(log, Event(IF ok THEN "mkdir" ELSE "mkdir_raise", 0))
    /\ UNCHANGED <<script, idx, icon, files, manifest, success_count,
                   fail_count, printed, n, small, big>>

\* generate_icons.py:110-115
ZenRender ==
    /\ script = "zen" /\ pc = "render" /\ idx <= Len(ICON_SPECS)
    /\ LET shape == create_zen_icon(pixel_size(ICON_SPECS[idx][1], ICON_SPECS[idx][2]))
       IN  \E env_raise \in BOOLEAN :
             IF shape.raises \/ env_raise
             THEN /\ log' = Append(log, Event("fail", idx))
                  /\ pc' = "aborted"
                  /\ UNCHANGED icon
             ELSE /\ icon' = shape
                  /\ log' = Append(log, Event("render", idx))
                  /\ pc' = "save"
    /\ UNCHANGED <<script, idx, files, manifest, success_count, fail_count,
                   printed, n, small, big>>

\* generate_icons.py:116-117
ZenSave ==
    /\ script = "zen" /\ pc = "save"
    /\ LET filename == ICON_SPECS[idx][3]
       IN  \E ok \in BOOLEAN :
             IF ok
             THEN /\ files' = (filename :> [width |-> icon.width,
                                            height |-> icon.height,
                                            complete |-> TRUE]) @@ files
                  /\ log' = Append(log, Event("save", idx))
                  /\ idx' = idx + 1
                  /\ pc' = AfterEntry(ICON_SPECS, "summary")
             ELSE /\ files' \in {files, (filename :> PartialFile) @@ files}
                  /\ log' = Append(log, Event("fail", idx))
                  /\ pc' = "aborted"
                  /\ UNCHANGED idx
    /\ icon' = NoIcon
    /\ UNCHANGED <<script, manifest, success_count, fail_count, printed,
                   n, small, big>>

\* generate_icons.py:119-120, "Successfully generated {len(ICON_SPECS)} icons!"
ZenSummary ==
    /\ script = "zen" /\ pc = "summary"
    /\ printed' = [summary |-> "zen", generated |-> Len(ICON_SPECS)]
    /\ pc' = "done"
    /\ UNCHANGED <<script, idx, icon, files, manifest, success_count,
                   fail_count, log, n, small, big>>

Next ==
    \/ AppMkdir
    \/ AppRender
    \/ AppSave
    \/ AppWriteManifest
    \/ AppSummary
    \/ ZenMkdir
    \/ ZenRender
    \/ ZenSave
    \/ ZenSummary

Spec == Init /\ [][Next]_vars

\* The scripts are sequential programs: a statement that can run does run.
FairSpec == Spec /\ WF_vars(Next)

----------------------------------------------------------------------------
(* The renderers at dimension N and at dimension 2N *)

ScaleInit ==
    /\ script \in {"app", "zen"}
    /\ RunInit
    /\ n \in 1 .. MaxN
    /\ small = NoIcon
    /\ big = NoIcon

RenderSmall ==
    /\ small = NoIcon
    /\ small' = render(script, n)
    /\ UNCHANGED <<script, runVars, n, big>>

RenderBig ==
    /\ big = NoIcon
    /\ big' = render(script, 2 * n)
    /\ UNCHANGED <<script, runVars, n, small>>

ScaleNext == RenderSmall \/ RenderBig

ScaleSpec == ScaleInit /\ [][ScaleNext]_vars

----------------------------------------------------------------------------
(* Vocabulary of the properties *)

TableLen == IF script = "app" THEN Len(ICON_SIZES) ELSE Len(ICON_SPECS)

EntryName(i) == IF script = "app" THEN ICON_SIZES[i][1] ELSE ICON_SPECS[i][3]

EntryPixels(i) ==
    IF script = "app" THEN ICON_SIZES[i][2]
    ELSE pixel_size(ICON_SPECS[i][1], ICON_SPECS[i][2])

TableNames == { EntryName(i) : i \in 1 .. TableLen }

Happened(ev, i) == \E p \in 1 .. Len(log) : log[p] = Event(ev, i)

Rendered(i) == Happened("render", i)

Saved(i) == Happened("save", i)

Failed(i) == Happened("fail", i)

\* The entry's iteration is over: saved, or its failure raised.
Processed(i) == Saved(i) \/ Failed(i)

MkdirRaised == Happened("mkdir_raise", 0)

ManifestFailed == Happened("manifest_fail", Len(ICON_SIZES) + 1)

ManifestAttempts ==
    { p \in 1 .. Len(log) : log[p].ev \in {"manifest", "manifest_fail"} }

Stopped == pc \in {"done", "aborted"}

HasFile(name) == name \in DOMAIN files /\ files[name].complete

Abs(x) == IF x < 0 THEN -x ELSE x

----------------------------------------------------------------------------
(* C1 *)

----------------------------------------------------------------------------
(* C2 *)

----------------------------------------------------------------------------
(* C3 *)

\* C3 as stated: after a run the files produced are exactly the filenames of
\* the size table, each with the entry's pixel dimension.
Orig_C3 ==
    pc = "done" =>
        /\ DOMAIN files = TableNames
        /\ \A i \in 1 .. TableLen :
              /\ HasFile(EntryName(i))
              /\ files[EntryName(i)].width = EntryPixels(i)
              /\ files[EntryName(i)].height = EntryPixels(i)

\* C3 amended: every file a run produced carries a filename of the size
\* table; the completely written files are exactly those of the entries whose
\* render and save succeeded, each with width and height equal to the
\* entry's pixel dimension; a file cut short belongs to an entry that failed;
\* and after a run that completed without a failed entry (every completed run
\* of generate_icons.py) the files are exactly the filenames of the table.
Thm_C3 ==
    /\ DOMAIN files \subseteq TableNames
    /\ \A i \in 1 .. TableLen :
          /\ HasFile(EntryName(i)) <=> Saved(i)
          /\ HasFile(EntryName(i)) =>
                /\ files[EntryName(i)].width = EntryPixels(i)
                /\ files[EntryName(i)].height = EntryPixels(i)
          /\ (EntryName(i) \in DOMAIN files /\ ~files[EntryName(i)].complete)
                => Failed(i)
    /\ (pc = "done" /\ (script = "zen" \/ success_count = TableLen)) =>
          /\ DOMAIN files = TableNames
          /\ \A i \in 1 .. TableLen : HasFile(EntryName(i))

Wit_C3 ==
    /\ pc = "done"
    /\ DOMAIN files = TableNames
    /\ \A i \in 1 .. TableLen : HasFile(EntryName(i))
    /\ files["icon-83.5@2x.png"].width = 167

----------------------------------------------------------------------------
(* C4 *)

\* C4 as stated: once Contents.json is written, its images list is as long
\* as ICON_SIZES and every filename it references has a PNG file rendered and
\* saved by the run.
Orig_C4 ==
    manifest.state = "written" =>
        /\ Len(manifest.json.images) = Len(ICON_SIZES)
        /\ \A k \in 1 .. Len(manifest.json.images) :
              HasFile(manifest.json.images[k].filename)

\* C4 amended: once Contents.json is written, its images list is as long as
\* ICON_SIZES and every filename it references is the filename of a table
\* entry the run has processed; the PNG file of that name was rendered and
\* saved by the run exactly when that entry did not fail, hence for every
\* referenced filename when success_count = len(ICON_SIZES).
Thm_C4 ==
    manifest.state = "written" =>
        /\ Len(manifest.json.images) = Len(ICON_SIZES)
        /\ \A k \in 1 .. Len(manifest.json.images) :
              LET name == manifest.json.images[k].filename
              IN  \E i \in 1 .. Len(ICON_SIZES) :
                     /\ ICON_SIZES[i][1] = name
                     /\ Processed(i)
                     /\ HasFile(name) <=> ~Failed(i)
        /\ success_count = Len(ICON_SIZES) =>
              \A k \in 1 .. Len(manifest.json.images) :
                  HasFile(manifest.json.images[k].filename)

Wit_C4 ==
    /\ manifest.state = "written"
    /\ success_count = Len(ICON_SIZES) - 1
    /\ Failed(9)
    /\ ~HasFile("icon-20.png")

----------------------------------------------------------------------------
(* C5 *)

\* The smallest pixel dimension of the script's size table.
SmallestSize ==
    CHOOSE m \in { EntryPixels(i) : i \in 1 .. TableLen } :
        \A i \in 1 .. TableLen : m <= EntryPixels(i)

\* C5 as stated: rendering at the smallest table size (20px) raises no error
\* in either renderer (no division by zero and no inverted bounding box in
\* create_radial_gradient when start and end radius truncate to the same
\* integer), and every stroke width used at that size is at least 1 pixel.
Orig_C5 ==
    /\ (pc = "render" /\ idx <= TableLen /\ EntryPixels(idx) = SmallestSize) =>
          ~render(script, SmallestSize).raises
    /\ (pc = "save" /\ icon.width = SmallestSize) =>
          /\ SmallestSize = 20
          /\ icon.stroke_width >= 1
          /\ \A k \in 1 .. Len(icon.rings) : icon.rings[k].stroke >= 1

----------------------------------------------------------------------------
(* C6 *)

\* The shape parameters of a rendered image, each a fraction <<num, den>> of
\* a pixel: center, ring radii, ring stroke widths, center-disc radius,
\* center stroke width and, for the Breathing Circles design, the radii of
\* the glow and of the inner gradient layers.
ShapeParams(shape) ==
    << << shape.center, 1 >> >>
    \o [k \in 1 .. Len(shape.rings) |-> shape.rings[k].radius]
    \o [k \in 1 .. Len(shape.rings) |-> << shape.rings[k].stroke, 1 >>]
    \o << shape.center_radius, << shape.stroke_width, 1 >> >>
    \o (IF shape.design = "breathing_circles"
        THEN << << shape.glow.start_radius, 1 >>, << shape.glow.end_radius, 1 >> >>
             \o [k \in 1 .. Len(shape.inner) |-> << shape.inner[k].start_radius, 1 >>]
             \o [k \in 1 .. Len(shape.inner) |-> << shape.inner[k].end_radius, 1 >>]
        ELSE << >>)

\* | b - 2a | in pixels, times the common denominator.
DoublingError(a, b) == Abs(b[1] - 2 * a[1])

\* C6: for every N in 1..MaxN and each renderer, every shape parameter
\* computed at dimension 2N differs from twice the same parameter computed at
\* dimension N by at most 1 pixel.
Thm_C6 ==
    (small # NoIcon /\ big # NoIcon) =>
        /\ small.width = n /\ big.width = 2 * n
        /\ Len(ShapeParams(small)) = Len(ShapeParams(big))
        /\ \A k \in 1 .. Len(ShapeParams(small)) :
              /\ ShapeParams(small)[k][2] = ShapeParams(big)[k][2]
              /\ DoublingError(ShapeParams(small)[k], ShapeParams(big)[k])
                    <= ShapeParams(small)[k][2]

\* Both renders done at N = 512 with the Breathing Circles design, where the
\* center stroke doubles exactly (1 -> 2) while a truncated radius is 1 pixel off.
Wit_C6 ==
    /\ script = "app" /\ n = MaxN /\ small # NoIcon /\ big # NoIcon
    /\ big.stroke_width = 2 * small.stroke_width
    /\ \E k \in 1 .. Len(ShapeParams(small)) :
          DoublingError(ShapeParams(small)[k], ShapeParams(big)[k])
             = ShapeParams(small)[k][2]

----------------------------------------------------------------------------
(* C7 *)

SavedEntries == { i \in 1 .. Len(ICON_SIZES) : Saved(i) }

FailedEntries == { i \in 1 .. Len(ICON_SIZES) : Failed(i) }

\* C7 as stated: at the head of every loop iteration success_count +
\* fail_count is the number of entries processed so far, and in the final
\* summary success_count + fail_count = len(ICON_SIZES), success_count being
\* the number of entries saved and fail_count the number of entries failed.
Orig_C7 ==
    script = "app" =>
        /\ pc = "render" => success_count + fail_count = idx - 1
        /\ printed.summary = "app" =>
              /\ printed.success + printed.failed = Len(ICON_SIZES)
              /\ printed.success = Cardinality(SavedEntries)
              /\ printed.failed = Cardinality(FailedEntries)

\* C7 amended: during the loop and right after it success_count + fail_count
\* is the number of entries processed so far; in the final summary
\* success_count is the number of entries rendered and saved, and fail_count
\* is the number of entries that failed plus one when the Contents.json write
\* failed, so that success_count + fail_count is len(ICON_SIZES), or
\* len(ICON_SIZES) + 1 after a failed manifest write.
Thm_C7 ==
    script = "app" =>
        /\ pc \in {"render", "save", "manifest"} =>
              /\ success_count + fail_count = idx - 1
              /\ success_count = Cardinality(SavedEntries)
              /\ fail_count = Cardinality(FailedEntries)
              /\ \A i \in 1 .. Len(ICON_SIZES) : Processed(i) <=> i < idx
        /\ printed.summary = "app" =>
              /\ printed.total = Len(ICON_SIZES)
              /\ printed.success = Cardinality(SavedEntries)
              /\ printed.failed = Cardinality(FailedEntries)
                                     + (IF ManifestFailed THEN 1 ELSE 0)
              /\ printed.success + printed.failed
                    = Len(ICON_SIZES) + (IF ManifestFailed THEN 1 ELSE 0)
              /\ printed.failed_shown <=> printed.failed > 0

Wit_C7 ==
    /\ script = "app" /\ printed.summary = "app"
    /\ ManifestFailed /\ Failed(3)
    /\ printed.success = Len(ICON_SIZES) - 1 /\ printed.failed = 2

----------------------------------------------------------------------------
(* C8 *)

\* C8 as stated: at every pixel dimension of the size table each renderer
\* draws five ring outlines, every ring's stroke width being at least 1.
Orig_C8 ==
    (pc = "save" /\ icon # NoIcon) =>
        /\ Len(icon.rings) = 5
        /\ \A k \in 1 .. Len(icon.rings) : icon.rings[k].stroke >= 1

----------------------------------------------------------------------------
(* C9 *)

IsTerminal(e) == e.ev \in {"save", "fail"}

IsManifest(e) == e.ev \in {"manifest", "manifest_fail"}

----------------------------------------------------------------------------
(* C10 *)

Digit(c) ==
    CASE c = "0" -> 0 [] c = "1" -> 1 [] c = "2" -> 2 [] c = "3" -> 3
      [] c = "4" -> 4 [] c = "5" -> 5 [] c = "6" -> 6 [] c = "7" -> 7
      [] c = "8" -> 8 [] c = "9" -> 9

IsDigit(c) == c \in {"0", "1", "2", "3", "4", "5", "6", "7", "8", "9"}

RECURSIVE ParseNat(_)
\* The value of a non-empty string of digits, -1 when it is not one.
ParseNat(s) ==
    IF Len(s) = 0 \/ ~IsDigit(s[Len(s)]) THEN -1
    ELSE IF Len(s) = 1 THEN Digit(s[1])
    ELSE LET head == ParseNat(SubSeq(s, 1, Len(s) - 1))
         IN  IF head < 0 THEN -1 ELSE 10 * head + Digit(s[Len(s)])

\* Position of the first character c of s, 0 when there is none.
IndexOf(s, c) ==
    IF \E i \in 1 .. Len(s) : s[i] = c
    THEN CHOOSE i \in 1 .. Len(s) : s[i] = c /\ \A j \in 1 .. (i - 1) : s[j] # c
    ELSE 0

\* Tenths of the decimal number s ("29" -> 290, "83.5" -> 835), -1 when s
\* is not a number with at most one decimal.
ParseTenths(s) ==
    LET dot == IndexOf(s, ".")
    IN  IF dot = 0
        THEN (IF ParseNat(s) < 0 THEN -1 ELSE 10 * ParseNat(s))
        ELSE IF dot # Len(s) - 1 \/ ParseNat(SubSeq(s, 1, dot - 1)) < 0
                \/ ~IsDigit(s[Len(s)])
             THEN -1
             ELSE 10 * ParseNat(SubSeq(s, 1, dot - 1)) + Digit(s[Len(s)])

\* Tenths of the point size of a "size" string "<w>x<h>" with w = h.
SizeTenths(s) ==
    LET x == IndexOf(s, "x")
    IN  IF x = 0 \/ SubSeq(s, 1, x - 1) # SubSeq(s, x + 1, Len(s)) THEN -1
        ELSE ParseTenths(SubSeq(s, 1, x - 1))

\* The multiplier of a "scale" string "<k>x".
ScaleFactor(s) ==
    IF Len(s) < 2 \/ s[Len(s)] # "x" THEN -1
    ELSE ParseNat(SubSeq(s, 1, Len(s) - 1))

ManifestMatchesTable(json) ==
    /\ Len(json.images) = Len(ICON_SIZES)
    /\ \A k \in 1 .. Len(ICON_SIZES) :
          /\ json.images[k].filename = ICON_SIZES[k][1]
          /\ ScaleFactor(json.images[k].scale) \in {1, 2, 3}
          /\ SizeTenths(json.images[k].size) > 0
          /\ SizeTenths(json.images[k].size) * ScaleFactor(json.images[k].scale)
                = 10 * ICON_SIZES[k][2]

\* C10: record k of CONTENTS_JSON names the file of ICON_SIZES[k], and its
\* point size times its scale (1x/2x/3x) is the pixel dimension of
\* ICON_SIZES[k]; so does the Contents.json a run writes.
Thm_C10 ==
    /\ ManifestMatchesTable(CONTENTS_JSON)
    /\ manifest.state = "written" => ManifestMatchesTable(manifest.json)

Wit_C10 ==
    /\ manifest.state = "written"
    /\ manifest.json.images[17].filename = "icon-83.5@2x.png"
    /\ SizeTenths(manifest.json.images[17].size) = 835
    /\ HasFile("icon-83.5@2x.png")
    /\ files["icon-83.5@2x.png"].width = 167

====
